---- MODULE Spec2Model ----
(***************************************************************************)
(* RegNet backbone graph construction (keras_cv regnet_backbone.py).       *)
(*                                                                         *)
(* A tensor is its spatial size h and its channel count c.  A unit is one  *)
(* layer of the graph.  Every builder returns a result record              *)
(*   [err, site, x, units, reg, calls]                                     *)
(* err/site: the exception raised and the place that raised it ("None"     *)
(* when the call returned), x: the returned tensor, units: the layers the  *)
(* call created in creation order, reg: the naming registry afterwards,    *)
(* calls: the block calls a stage made, in order.                          *)
(***************************************************************************)
EXTENDS Integers, Sequences, FiniteSets, TLC

(***************************************************************************)
(* Bounds of the model.                                                    *)
(***************************************************************************)
MaxDepth == 2
MaxModels == 2
MaxCalls == 2

(***************************************************************************)
(* Program constants.                                                      *)
(***************************************************************************)
NUM_STAGES == 4
STEM_FILTERS == 32
STEM_STRIDE == 2
STAGE_STRIDE == 2
INPUT_CHANNELS == 3

\* the value of a set of one element: binds an intermediate result once
Only(S) == CHOOSE v \in S : TRUE

None == "<None>"
NoTensor == [h |-> 0, c |-> 0]
Tensor(h, c) == [h |-> h, c |-> c]

(***************************************************************************)
(* Input domains.                                                          *)
(***************************************************************************)
BlockTypes == {"X", "Y", "Z"}
BlockTypeArgs == BlockTypes \cup {"W"}
WidthVals == {4, 10}
GroupWidthVals == {2, 3}
SpatialSizes == {100, 224}
ModelNames == {"regnet"}
DepthVals == {1, MaxDepth}
CallDepths == {0, 1, MaxDepth}
CallFilters == {4, 7}
StageFiltersIn == {4}
CallGroupWidths == {2, 4}
CallStrides == {1, 2}
CallNames == {None, "b"}
CallSizes == {8}
DefaultRatio == <<1, 4>>
BottleneckRatios == {<<1, 4>>, <<1, 2>>}

(***************************************************************************)
(* The naming registry: one counter per prefix.  backend.get_uid(prefix)   *)
(* increments the prefix's counter and returns it; a layer created without *)
(* a name draws its name from the same registry.                           *)
(***************************************************************************)
Prefixes == {"stem", "xblock", "yblock", "zblock", "stage",
             "input", "rescaling", "tf.__operators__.add"}
EmptyRegistry == [p \in Prefixes |-> 0]

get_uid(reg, prefix) == reg[prefix] + 1
Bump(reg, prefix) == [reg EXCEPT ![prefix] = @ + 1]

\* name of a layer created without a name, zero based: p, p_1, p_2, ...
AutoName(reg, prefix) ==
    IF reg[prefix] = 0 THEN prefix ELSE prefix \o "_" \o ToString(reg[prefix])

\* name of an input layer created without a name: input_1, input_2, ...
AutoNameInput(reg) == "input_" \o ToString(reg["input"] + 1)

(***************************************************************************)
(* Units.                                                                  *)
(***************************************************************************)
Unit(kind, name, auto, filters, kernel, strides, groups, padding, arg) ==
    [kind |-> kind, name |-> name, auto |-> auto, filters |-> filters,
     kernel |-> kernel, strides |-> strides, groups |-> groups,
     padding |-> padding, arg |-> arg]

Ok(x, units, reg) ==
    [err |-> "None", site |-> "", x |-> x, units |-> units, reg |-> reg,
     calls |-> <<>>]
Fail(err, site, reg) ==
    [err |-> err, site |-> site, x |-> NoTensor, units |-> <<>>, reg |-> reg,
     calls |-> <<>>]

(***************************************************************************)
(* The tensor library: shape of a convolution's output, the grouped        *)
(* convolution's requirement, and elementwise addition.                    *)
(***************************************************************************)
CeilDiv(a, b) == (a + b - 1) \div b

ConvOutSize(h, kernel, strides, padding) ==
    IF padding = "same" THEN CeilDiv(h, strides)
    ELSE ((h - kernel) \div strides) + 1

Conv2DAccepts(cin, filters, groups) ==
    /\ groups >= 1
    /\ cin % groups = 0
    /\ filters % groups = 0

AddAccepts(a, b) == a = b

(***************************************************************************)
(* apply_conv2d_bn: convolution, optional batch normalisation, optional    *)
(* activation, all named from the given name.                              *)
(***************************************************************************)
apply_conv2d_bn(x, filters, kernel_size, strides, groups, padding, batch_norm, activation, name, reg) ==
    IF ~Conv2DAccepts(x.c, filters, groups)
    THEN Fail("ValueError", "Conv2D", reg)
    ELSE Ok(Tensor(ConvOutSize(x.h, kernel_size, strides, padding), filters),
            <<Unit("Conv2D", name, FALSE, filters, kernel_size, strides,
                   groups, padding, "")>>
            \o (IF batch_norm
                THEN <<Unit("BatchNormalization", name \o "_bn", FALSE,
                            0, 0, 0, 0, "", "momentum=0.9,epsilon=1e-5")>>
                ELSE <<>>)
            \o (IF activation # None
                THEN <<Unit("Activation", name \o "_" \o activation, FALSE,
                            0, 0, 0, 0, "", activation)>>
                ELSE <<>>),
            reg)

(***************************************************************************)
(* apply_stem                                                              *)
(***************************************************************************)
StemName(name, reg) ==
    IF name = None THEN "stem" \o ToString(get_uid(reg, "stem")) ELSE name
StemReg(name, reg) == IF name = None THEN Bump(reg, "stem") ELSE reg

apply_stem_stride1(x, name, reg) ==
    apply_conv2d_bn(x, STEM_FILTERS, 3, 1, 1, "same", TRUE, "relu",
                    StemName(name, reg) \o "_stem_conv", StemReg(name, reg))

apply_stem(x, name, reg) ==
    apply_conv2d_bn(x, STEM_FILTERS, 3, STEM_STRIDE, 1, "same", TRUE, "relu",
                    StemName(name, reg) \o "_stem_conv", StemReg(name, reg))

(***************************************************************************)
(* Blocks.  A block called without a name takes its name from the          *)
(* registry before anything else happens.                                  *)
(***************************************************************************)
BlockName(name, reg, prefix) ==
    IF name = None THEN ToString(get_uid(reg, prefix)) ELSE name
BlockReg(name, reg, prefix) == IF name = None THEN Bump(reg, prefix) ELSE reg

Groups_isGroupWidth(filters_out, group_width) == group_width

Groups(filters_out, group_width) == filters_out \div group_width

RatioStr(ratio) == ToString(ratio[1]) \o "/" \o ToString(ratio[2])

\* int(filters_out / bottleneck_ratio), the ratio given as <<num, den>>
InvBottleneckFilters(filters_out, ratio) ==
    (filters_out * ratio[2]) \div ratio[1]

SqueezeAndExcite2D(filters, ratio, name) ==
    Unit("SqueezeAndExcite2D", name, FALSE, filters, 0, 0, 0, "",
         RatioStr(ratio))

\* the layer that `a + b` creates on symbolic tensors: it has no name
AddUnit(reg) ==
    Unit("TFOpLambda", AutoName(reg, "tf.__operators__.add"), TRUE,
         0, 0, 0, 0, "", "add")

ExitRelu(name) ==
    Unit("Activation", name \o "_exit_relu", FALSE, 0, 0, 0, 0, "", "relu")

XRejects_anyStride(filters_in, filters_out, stride) ==
    filters_in # filters_out

XRejects(filters_in, filters_out, stride) ==
    filters_in # filters_out /\ stride = 1

YRejects(filters_in, filters_out, stride) ==
    filters_in # filters_out /\ stride = 1

apply_x_block(inputs, filters_in, filters_out, group_width, stride, name0, reg0) ==
    LET name == BlockName(name0, reg0, "xblock")
        r0 == BlockReg(name0, reg0, "xblock")
        groups == Groups(filters_out, group_width)
        Skip == IF stride # 1
                THEN apply_conv2d_bn(inputs, filters_out, 1, stride, 1,
                         "valid", TRUE, None, name \o "_skip_1x1", r0)
                ELSE Ok(inputs, <<>>, r0)
        Conv1 == apply_conv2d_bn(inputs, filters_out, 1, 1, 1, "valid", TRUE,
                     "relu", name \o "_conv_1x1_1", r0)
        Conv3(c1) == apply_conv2d_bn(c1.x, filters_out, 3, stride, groups,
                         "same", TRUE, "relu", name \o "_conv_3x3", r0)
        Conv2(c3) == apply_conv2d_bn(c3.x, filters_out, 1, 1, 1, "valid",
                         TRUE, None, name \o "_conv_1x1_2", r0)
        Exit(skip, c1, c3, c2) ==
            IF skip.err # "None" THEN skip
            ELSE IF c1.err # "None" THEN c1
            ELSE IF c3.err # "None" THEN c3
            ELSE IF c2.err # "None" THEN c2
            ELSE IF ~AddAccepts(c2.x, skip.x)
            THEN Fail("ValueError", "add", r0)
            ELSE Ok(c2.x,
                    skip.units \o c1.units \o c3.units \o c2.units
                      \o <<AddUnit(r0), ExitRelu(name)>>,
                    Bump(r0, "tf.__operators__.add"))
    IN  IF XRejects(filters_in, filters_out, stride)
        THEN Fail("ValueError", "filters_check", r0)
        ELSE Only({ Only({ Only({ Exit(skip, c1, c3, c2) :
                                  c2 \in {Conv2(c3)} }) :
                           c3 \in {Conv3(c1)} }) :
                    skip \in {Skip}, c1 \in {Conv1} })

apply_y_block_gateLast(inputs, filters_in, filters_out, group_width, stride, squeeze_excite_ratio, name0, reg0) ==
    LET name == BlockName(name0, reg0, "yblock")
        r0 == BlockReg(name0, reg0, "yblock")
        groups == Groups(filters_out, group_width)
        Skip == IF stride # 1
                THEN apply_conv2d_bn(inputs, filters_out, 1, stride, 1,
                         "valid", TRUE, None, name \o "_skip_1x1", r0)
                ELSE Ok(inputs, <<>>, r0)
        Conv1 == apply_conv2d_bn(inputs, filters_out, 1, 1, 1, "valid", TRUE,
                     "relu", name \o "_conv_1x1_1", r0)
        Conv3(c1) == apply_conv2d_bn(c1.x, filters_out, 3, stride, groups,
                         "same", TRUE, "relu", name \o "_conv_3x3", r0)
        se == SqueezeAndExcite2D(filters_out, squeeze_excite_ratio, name)
        Conv2(c3) == apply_conv2d_bn(c3.x, filters_out, 1, 1, 1, "valid",
                         TRUE, None, name \o "_conv_1x1_2", r0)
        Exit(skip, c1, c3, c2) ==
            IF skip.err # "None" THEN skip
            ELSE IF c1.err # "None" THEN c1
            ELSE IF c3.err # "None" THEN c3
            ELSE IF c2.err # "None" THEN c2
            ELSE IF ~AddAccepts(c2.x, skip.x)
            THEN Fail("ValueError", "add", r0)
            ELSE Ok(c2.x,
                    skip.units \o c1.units \o c3.units \o c2.units \o <<se>>
                      \o <<AddUnit(r0), ExitRelu(name)>>,
                    Bump(r0, "tf.__operators__.add"))
    IN  IF YRejects(filters_in, filters_out, stride)
        THEN Fail("ValueError", "filters_check", r0)
        ELSE Only({ Only({ Only({ Exit(skip, c1, c3, c2) :
                                  c2 \in {Conv2(c3)} }) :
                           c3 \in {Conv3(c1)} }) :
                    skip \in {Skip}, c1 \in {Conv1} })

apply_y_block(inputs, filters_in, filters_out, group_width, stride, squeeze_excite_ratio, name0, reg0) ==
    LET name == BlockName(name0, reg0, "yblock")
        r0 == BlockReg(name0, reg0, "yblock")
        groups == Groups(filters_out, group_width)
        Skip == IF stride # 1
                THEN apply_conv2d_bn(inputs, filters_out, 1, stride, 1,
                         "valid", TRUE, None, name \o "_skip_1x1", r0)
                ELSE Ok(inputs, <<>>, r0)
        Conv1 == apply_conv2d_bn(inputs, filters_out, 1, 1, 1, "valid", TRUE,
                     "relu", name \o "_conv_1x1_1", r0)
        Conv3(c1) == apply_conv2d_bn(c1.x, filters_out, 3, stride, groups,
                         "same", TRUE, "relu", name \o "_conv_3x3", r0)
        se == SqueezeAndExcite2D(filters_out, squeeze_excite_ratio, name)
        Conv2(c3) == apply_conv2d_bn(c3.x, filters_out, 1, 1, 1, "valid",
                         TRUE, None, name \o "_conv_1x1_2", r0)
        Exit(skip, c1, c3, c2) ==
            IF skip.err # "None" THEN skip
            ELSE IF c1.err # "None" THEN c1
            ELSE IF c3.err # "None" THEN c3
            ELSE IF c2.err # "None" THEN c2
            ELSE IF ~AddAccepts(c2.x, skip.x)
            THEN Fail("ValueError", "add", r0)
            ELSE Ok(c2.x,
                    skip.units \o c1.units \o c3.units \o <<se>> \o c2.units
                      \o <<AddUnit(r0), ExitRelu(name)>>,
                    Bump(r0, "tf.__operators__.add"))
    IN  IF YRejects(filters_in, filters_out, stride)
        THEN Fail("ValueError", "filters_check", r0)
        ELSE Only({ Only({ Only({ Exit(skip, c1, c3, c2) :
                                  c2 \in {Conv2(c3)} }) :
                           c3 \in {Conv3(c1)} }) :
                    skip \in {Skip}, c1 \in {Conv1} })

ZRejects_never(filters_in, filters_out, stride) == FALSE

ZRejects(filters_in, filters_out, stride) ==
    filters_in # filters_out /\ stride = 1

\* the groups of the Z block's 3x3 convolution
ZGroups_fromBottleneck(filters_out, inv_btlneck_filters, group_width) ==
    Groups(inv_btlneck_filters, group_width)

ZGroups(filters_out, inv_btlneck_filters, group_width) ==
    Groups(filters_out, group_width)

apply_z_block(inputs, filters_in, filters_out, group_width, stride, squeeze_excite_ratio, bottleneck_ratio, name0, reg0) ==
    LET name == BlockName(name0, reg0, "zblock")
        r0 == BlockReg(name0, reg0, "zblock")
        inv_btlneck_filters ==
            InvBottleneckFilters(filters_out, bottleneck_ratio)
        groups == ZGroups(filters_out, inv_btlneck_filters, group_width)
        Conv1 == apply_conv2d_bn(inputs, inv_btlneck_filters, 1, 1, 1,
                     "valid", TRUE, "silu", name \o "_conv_1x1_1", r0)
        Conv3(c1) == apply_conv2d_bn(c1.x, inv_btlneck_filters, 3, stride,
                         groups, "same", TRUE, "silu", name \o "_conv_3x3",
                         r0)
        se == SqueezeAndExcite2D(inv_btlneck_filters, squeeze_excite_ratio,
                                 name)
        Conv2(c3) == apply_conv2d_bn(c3.x, filters_out, 1, 1, 1, "valid",
                         TRUE, None, name \o "_conv_1x1_2", r0)
        Exit(c1, c3, c2) ==
            IF c1.err # "None" THEN c1
            ELSE IF c3.err # "None" THEN c3
            ELSE IF c2.err # "None" THEN c2
            ELSE IF stride # 1
            THEN Ok(c2.x, c1.units \o c3.units \o <<se>> \o c2.units, r0)
            ELSE IF ~AddAccepts(c2.x, inputs)
            THEN Fail("ValueError", "add", r0)
            ELSE Ok(c2.x,
                    c1.units \o c3.units \o <<se>> \o c2.units
                      \o <<AddUnit(r0)>>,
                    Bump(r0, "tf.__operators__.add"))
    IN  IF ZRejects(filters_in, filters_out, stride)
        THEN Fail("ValueError", "filters_check", r0)
        ELSE Only({ Only({ Only({ Exit(c1, c3, c2) :
                                  c2 \in {Conv2(c3)} }) :
                           c3 \in {Conv3(c1)} }) :
                    c1 \in {Conv1} })

(***************************************************************************)
(* apply_stage: one block with stride 2 from filters_in to filters_out,    *)
(* then the blocks 1 .. depth-1 with the default stride 1.                 *)
(***************************************************************************)
BlockCall(block_type, filters_in, filters_out, group_width, stride, name) ==
    [block_type |-> block_type, filters_in |-> filters_in,
     filters_out |-> filters_out, group_width |-> group_width,
     stride |-> stride, name |-> name]

apply_block(block_type, x, filters_in, filters_out, group_width, stride, name, reg) ==
    IF block_type = "X"
    THEN apply_x_block(x, filters_in, filters_out, group_width, stride,
                       name, reg)
    ELSE IF block_type = "Y"
    THEN apply_y_block(x, filters_in, filters_out, group_width, stride,
                       DefaultRatio, name, reg)
    ELSE apply_z_block(x, filters_in, filters_out, group_width, stride,
                       DefaultRatio, DefaultRatio, name, reg)

StageBlockName_noIndex(name, block_type, i) ==
    name \o "_" \o block_type \o "Block"

StageBlockName(name, block_type, i) ==
    name \o "_" \o block_type \o "Block_" \o ToString(i)

\* acc: the result so far; the exception of a block ends the stage
StageStep(acc, block_type, filters_in, filters_out, group_width, stride, name) ==
    LET call == BlockCall(block_type, filters_in, filters_out, group_width,
                          stride, name)
    IN  Only({ [err |-> r.err, site |-> r.site, x |-> r.x,
                units |-> IF r.err = "None" THEN acc.units \o r.units
                          ELSE <<>>,
                reg |-> r.reg, calls |-> Append(acc.calls, call)] :
               r \in {apply_block(block_type, acc.x, filters_in, filters_out,
                                  group_width, stride, name, acc.reg)} })

\* `for i in range(1, depth)` is over
LoopDone_inclusive(i, depth) == i > depth

LoopDone(i, depth) == i >= depth

RECURSIVE StageLoop(_, _, _, _, _, _, _)
StageLoop(acc, block_type, i, depth, group_width, filters_out, name) ==
    IF LoopDone(i, depth) \/ acc.err # "None" THEN acc
    ELSE Only({ StageLoop(next, block_type, i + 1, depth, group_width,
                          filters_out, name) :
                next \in {StageStep(acc, block_type, filters_out,
                                    filters_out, group_width, 1,
                                    StageBlockName(name, block_type, i))} })

\* the if / elif chain of apply_stage reaches a block builder
Recognized_noZ(block_type) == block_type \in {"X", "Y"}

Recognized(block_type) == block_type \in {"X", "Y", "Z"}

apply_stage_firstStride1(x, block_type, depth, group_width, filters_in, filters_out, name0, reg0) ==
    LET name == BlockName(name0, reg0, "stage")
        r0 == BlockReg(name0, reg0, "stage")
    IN  IF Recognized(block_type)
        THEN Only({ StageLoop(first, block_type, 1, depth, group_width,
                              filters_out, name) :
                    first \in {StageStep(Ok(x, <<>>, r0), block_type,
                                         filters_in, filters_out, group_width,
                                         1,
                                         StageBlockName(name, block_type,
                                                        0))} })
        ELSE Fail("NotImplementedError", "block_type", r0)

apply_stage(x, block_type, depth, group_width, filters_in, filters_out, name0, reg0) ==
    LET name == BlockName(name0, reg0, "stage")
        r0 == BlockReg(name0, reg0, "stage")
    IN  IF Recognized(block_type)
        THEN Only({ StageLoop(first, block_type, 1, depth, group_width,
                              filters_out, name) :
                    first \in {StageStep(Ok(x, <<>>, r0), block_type,
                                         filters_in, filters_out, group_width,
                                         STAGE_STRIDE,
                                         StageBlockName(name, block_type,
                                                        0))} })
        ELSE Fail("NotImplementedError", "block_type", r0)

(***************************************************************************)
(* RegNetBackBone.  The arguments of a construction:                       *)
(***************************************************************************)
Args(depths, widths, group_width, block_type, include_rescaling, model_name, size) ==
    [depths |-> depths, widths |-> widths, group_width |-> group_width,
     block_type |-> block_type, include_rescaling |-> include_rescaling,
     model_name |-> model_name, input_tensor |-> None,
     input_shape |-> <<size, size, INPUT_CHANNELS>>]

ArgSpace ==
    { Args(d, w, g, b, s, n, h) :
        d \in [1..NUM_STAGES -> DepthVals],
        w \in [1..NUM_STAGES -> WidthVals],
        g \in GroupWidthVals, b \in BlockTypeArgs, s \in BOOLEAN,
        n \in ModelNames, h \in SpatialSizes }

NoArgs == Args(<<>>, <<>>, 0, "", FALSE, "", 0)

Toggled(a) == [a EXCEPT !.include_rescaling = ~a.include_rescaling]

\* utils.parse_model_inputs with no input tensor: a new, unnamed input layer
InputUnit(reg, shape) ==
    Unit("InputLayer", AutoNameInput(reg), TRUE, shape[3], 0, 0, 0, "", "")

RescalingUnit(reg) ==
    Unit("Rescaling", AutoName(reg, "rescaling"), TRUE, 0, 0, 0, 0, "",
         "1/255")

BuildHead_rescaleAfterStem(a, reg0) ==
    LET r1 == Bump(reg0, "input")
        img_input == Tensor(a.input_shape[1], a.input_shape[3])
        stem == apply_stem(img_input, a.model_name, r1)
        r2 == IF a.include_rescaling THEN Bump(stem.reg, "rescaling")
              ELSE stem.reg
    IN  IF stem.err # "None" THEN stem
        ELSE Ok(stem.x,
                <<InputUnit(reg0, a.input_shape)>> \o stem.units
                  \o (IF a.include_rescaling THEN <<RescalingUnit(stem.reg)>>
                      ELSE <<>>),
                r2)

\* the part of __init__ before the loop over the stages
BuildHead(a, reg0) ==
    LET r1 == Bump(reg0, "input")
        r2 == IF a.include_rescaling THEN Bump(r1, "rescaling") ELSE r1
        img_input == Tensor(a.input_shape[1], a.input_shape[3])
        stem == apply_stem(img_input, a.model_name, r2)
    IN  IF stem.err # "None" THEN stem
        ELSE Ok(stem.x,
                <<InputUnit(reg0, a.input_shape)>>
                  \o (IF a.include_rescaling THEN <<RescalingUnit(r1)>>
                      ELSE <<>>)
                  \o stem.units,
                stem.reg)

StageName(model_name, stage_index) ==
    model_name \o "_Stage_" \o ToString(stage_index)

NoModel ==
    [args |-> NoArgs, layers |-> <<>>, output |-> NoTensor,
     attrs |-> NoArgs, name |-> ""]

\* what __init__ leaves: the graph, and the hyperparameters as attributes.
\* input_shape is the attribute the base model derives from the graph.
Model(a, layers, x) ==
    [args |-> a, layers |-> layers, output |-> x,
     attrs |-> [depths |-> a.depths, widths |-> a.widths,
                group_width |-> a.group_width, block_type |-> a.block_type,
                include_rescaling |-> a.include_rescaling,
                model_name |-> a.model_name,
                input_tensor |-> a.input_tensor,
                input_shape |-> a.input_shape],
     name |-> a.model_name]

ConfigKeys ==
    {"depths", "widths", "group_width", "block_type", "include_rescaling",
     "model_name", "input_tensor", "input_shape"}

\* get_config fills the dictionary and ends without a return statement
PyNone == [type |-> "NoneType", keys |-> {}]
PyDict(keys) == [type |-> "dict", keys |-> keys]

get_config(m) ==
    LET config == PyDict(ConfigKeys) IN PyNone

Depth(a, stage_index) == a.depths[stage_index + 1]

OutChannels_fromDepths(a, stage_index) == a.depths[stage_index + 1]

OutChannels(a, stage_index) == a.widths[stage_index + 1]

\* in_channels: the stem's output channels, then the width of the stage
\* before (which is the channel count of that stage's output)
InChannels_notUpdated(acc, a, stage_index) == STEM_FILTERS

InChannels(acc, a, stage_index) == acc.x.c

\* the loop of __init__ over the stages
RECURSIVE BuildStages(_, _, _)
BuildStages(acc, a, stage_index) ==
    IF stage_index >= NUM_STAGES \/ acc.err # "None" THEN acc
    ELSE LET depth == Depth(a, stage_index)
             out_channels == OutChannels(a, stage_index)
             in_channels == InChannels(acc, a, stage_index)
         IN  Only({ BuildStages(
                      [err |-> r.err, site |-> r.site, x |-> r.x,
                       units |-> IF r.err = "None" THEN acc.units \o r.units
                                 ELSE <<>>,
                       reg |-> r.reg, calls |-> acc.calls \o r.calls],
                      a, stage_index + 1) :
                    r \in {apply_stage(acc.x, a.block_type, depth,
                                       a.group_width, in_channels,
                                       out_channels,
                                       StageName(a.model_name, stage_index),
                                       acc.reg)} })

\* RegNetBackBone.__init__ up to the call of the base class
Build(a, reg0) ==
    Only({ BuildStages(head, a, 0) : head \in {BuildHead(a, reg0)} })

VARIABLES
    reg,          \* the naming registry of the process
    pc,           \* "idle", "built" (a backbone exists) or "failed"
    args,         \* the arguments of the construction made last
    calls,        \* the block calls made by the construction made last
    err,          \* the exception that ended it, with its site
    model,        \* the backbone built last
    prev,         \* the backbone built before it
    last,         \* the last direct call and what it returned
    ncalls,       \* number of direct calls made
    drawn         \* what each direct call made without a name took from
                  \* the registry: its name prefix, and its last named layer

vars == <<reg, pc, args, calls, err, model, prev, last, ncalls, drawn>>

buildVars == <<pc, args, calls, err, model, prev>>

NoCall == [op |-> "none"]

Init ==
    /\ reg = EmptyRegistry
    /\ pc = "idle"
    /\ args = NoArgs
    /\ calls = <<>>
    /\ err = [err |-> "None", site |-> ""]
    /\ model = NoModel
    /\ prev = NoModel
    /\ last = NoCall
    /\ ncalls = 0
    /\ drawn = <<>>

(***************************************************************************)
(* RegNetBackBone(...).  The first construction of a run takes any         *)
(* arguments; a later one repeats the arguments of the one before it, or   *)
(* repeats them with include_rescaling switched.                           *)
(***************************************************************************)
NextArgs == IF pc = "idle" THEN ArgSpace ELSE {args, Toggled(args)}

Construct ==
    /\ reg["input"] < MaxModels
    /\ \E a \in NextArgs :
        \E r \in {Build(a, reg)} :
        /\ args' = a
        /\ reg' = r.reg
        /\ calls' = r.calls
        /\ err' = [err |-> r.err, site |-> r.site]
        /\ pc' = IF r.err = "None" THEN "built" ELSE "failed"
        /\ model' = IF r.err = "None" THEN Model(a, r.units, r.x)
                    ELSE NoModel
    /\ prev' = IF pc = "built" THEN model ELSE prev
    /\ last' = NoCall
    /\ UNCHANGED <<ncalls, drawn>>

GetConfig ==
    /\ pc = "built"
    /\ last.op # "get_config"
    /\ last' = [op |-> "get_config", r |-> get_config(model)]
    /\ UNCHANGED <<reg, buildVars, ncalls, drawn>>

(***************************************************************************)
(* The named model classes: the preset name each __new__ passes on.        *)
(***************************************************************************)
PresetName_copyPaste ==
    "RegNetX002Backbone" :> "regnetx002"
    @@ "RegNetX004Backbone" :> "regnetx004"
    @@ "RegNetX006Backbone" :> "regnetx006"
    @@ "RegNetX008Backbone" :> "regnetx008"
    @@ "RegNetX016Backbone" :> "regnetx016"
    @@ "RegNetX032Backbone" :> "regnetx032"
    @@ "RegNetX040Backbone" :> "regnetx040"
    @@ "RegNetX064Backbone" :> "regnetx064"
    @@ "RegNetX080Backbone" :> "regnetx080"
    @@ "RegNetX120Backbone" :> "regnetx120"
    @@ "RegNetX160Backbone" :> "regnetx160"
    @@ "RegNetX320Backbone" :> "regnetx320"
    @@ "RegNetY002Backbone" :> "regnety002"
    @@ "RegNetY004Backbone" :> "regnety004"
    @@ "RegNetY006Backbone" :> "regnety006"
    @@ "RegNetY008Backbone" :> "regnety008"
    @@ "RegNetY016Backbone" :> "regnety016"
    @@ "RegNetY032Backbone" :> "regnety032"
    @@ "RegNetY040Backbone" :> "regnety040"
    @@ "RegNetY064Backbone" :> "regnety064"
    @@ "RegNetY080Backbone" :> "regnety080"
    @@ "RegNetY120Backbone" :> "regnety120"
    @@ "RegNetY160Backbone" :> "regnety160"
    @@ "RegNetY320Backbone" :> "regnety160"

PresetName ==
    "RegNetX002Backbone" :> "regnetx002"
    @@ "RegNetX004Backbone" :> "regnetx004"
    @@ "RegNetX006Backbone" :> "regnetx006"
    @@ "RegNetX008Backbone" :> "regnetx008"
    @@ "RegNetX016Backbone" :> "regnetx016"
    @@ "RegNetX032Backbone" :> "regnetx032"
    @@ "RegNetX040Backbone" :> "regnetx040"
    @@ "RegNetX064Backbone" :> "regnetx064"
    @@ "RegNetX080Backbone" :> "regnetx080"
    @@ "RegNetX120Backbone" :> "regnetx120"
    @@ "RegNetX160Backbone" :> "regnetx160"
    @@ "RegNetX320Backbone" :> "regnetx320"
    @@ "RegNetY002Backbone" :> "regnety002"
    @@ "RegNetY004Backbone" :> "regnety004"
    @@ "RegNetY006Backbone" :> "regnety006"
    @@ "RegNetY008Backbone" :> "regnety008"
    @@ "RegNetY016Backbone" :> "regnety016"
    @@ "RegNetY032Backbone" :> "regnety032"
    @@ "RegNetY040Backbone" :> "regnety040"
    @@ "RegNetY064Backbone" :> "regnety064"
    @@ "RegNetY080Backbone" :> "regnety080"
    @@ "RegNetY120Backbone" :> "regnety120"
    @@ "RegNetY160Backbone" :> "regnety160"
    @@ "RegNetY320Backbone" :> "regnety320"

NamedClasses == DOMAIN PresetName

\* __new__ packs its three arguments into kwargs and delegates
NamedClassNew(cls, include_rescaling, input_tensor, input_shape) ==
    [preset |-> PresetName[cls],
     kwargs |-> [include_rescaling |-> include_rescaling,
                 input_tensor |-> input_tensor,
                 input_shape |-> input_shape]]

(***************************************************************************)
(* Direct calls of the builders, on an input tensor that has filters_in    *)
(* channels.                                                               *)
(***************************************************************************)
RegistryKey(op) ==
    CASE op = "apply_stem" -> "stem"
      [] op = "apply_x_block" -> "xblock"
      [] op = "apply_y_block" -> "yblock"
      [] op = "apply_z_block" -> "zblock"
      [] op = "apply_stage" -> "stage"

\* the name prefix a call made without a name gives itself
DrawnPrefix(op, registry) ==
    IF op = "apply_stem" THEN StemName(None, registry)
    ELSE BlockName(None, registry, RegistryKey(op))

\* the name of the last layer of units that was given a name, None if none
LastNamed(units) ==
    LET named == { i \in DOMAIN units : ~units[i].auto } IN
    IF named = {} THEN None
    ELSE units[CHOOSE i \in named : \A j \in named : j <= i].name

Returned(op, a, r) ==
    /\ reg' = r.reg
    /\ last' = [op |-> op, args |-> a, r |-> r]
    /\ ncalls' = ncalls + 1
    /\ drawn' = IF a.name = None
                THEN Append(drawn, [prefix |-> DrawnPrefix(op, reg),
                                    layer |-> LastNamed(r.units)])
                ELSE drawn
    /\ UNCHANGED buildVars

CallStem ==
    /\ ncalls < MaxCalls
    /\ \E h \in CallSizes, name \in CallNames :
        \E r \in {apply_stem(Tensor(h, INPUT_CHANNELS), name, reg)} :
            Returned("apply_stem", [name |-> name, size |-> h], r)

BlockArgs(filters_in, filters_out, group_width, stride, name, h, ratio) ==
    [filters_in |-> filters_in, filters_out |-> filters_out,
     group_width |-> group_width, stride |-> stride, name |-> name,
     size |-> h, bottleneck_ratio |-> ratio]

CallXBlock ==
    /\ ncalls < MaxCalls
    /\ \E fi \in CallFilters, fo \in CallFilters, gw \in CallGroupWidths,
          stride \in CallStrides, name \in CallNames, h \in CallSizes :
        \E r \in {apply_x_block(Tensor(h, fi), fi, fo, gw, stride, name,
                                reg)} :
            Returned("apply_x_block",
                     BlockArgs(fi, fo, gw, stride, name, h, DefaultRatio), r)

CallYBlock ==
    /\ ncalls < MaxCalls
    /\ \E fi \in CallFilters, fo \in CallFilters, gw \in CallGroupWidths,
          stride \in CallStrides, name \in CallNames, h \in CallSizes :
        \E r \in {apply_y_block(Tensor(h, fi), fi, fo, gw, stride,
                                DefaultRatio, name, reg)} :
            Returned("apply_y_block",
                     BlockArgs(fi, fo, gw, stride, name, h, DefaultRatio), r)

CallZBlock ==
    /\ ncalls < MaxCalls
    /\ \E fi \in CallFilters, fo \in CallFilters, gw \in CallGroupWidths,
          stride \in CallStrides, name \in CallNames, h \in CallSizes,
          ratio \in BottleneckRatios :
        \E r \in {apply_z_block(Tensor(h, fi), fi, fo, gw, stride,
                                DefaultRatio, ratio, name, reg)} :
            Returned("apply_z_block",
                     BlockArgs(fi, fo, gw, stride, name, h, ratio), r)

CallStage ==
    /\ ncalls < MaxCalls
    /\ \E bt \in BlockTypeArgs, depth \in CallDepths,
          gw \in CallGroupWidths, fi \in StageFiltersIn, fo \in CallFilters,
          name \in CallNames, h \in CallSizes :
        \E r \in {apply_stage(Tensor(h, fi), bt, depth, gw, fi, fo, name,
                              reg)} :
            Returned("apply_stage",
                     [block_type |-> bt, depth |-> depth, group_width |-> gw,
                      filters_in |-> fi, filters_out |-> fo, name |-> name,
                      size |-> h], r)

CallNamedClass ==
    /\ ncalls < MaxCalls
    /\ \E cls \in NamedClasses, include_rescaling \in BOOLEAN,
          h \in CallSizes :
        LET shape == <<h, h, INPUT_CHANNELS>> IN
        /\ last' = [op |-> "__new__",
                    args |-> [cls |-> cls,
                              include_rescaling |-> include_rescaling,
                              input_tensor |-> None, input_shape |-> shape],
                    r |-> NamedClassNew(cls, include_rescaling, None, shape)]
        /\ ncalls' = ncalls + 1
        /\ UNCHANGED <<reg, buildVars, drawn>>

Next ==
    \/ Construct
    \/ GetConfig

NextCalls ==
    \/ CallStem
    \/ CallXBlock
    \/ CallYBlock
    \/ CallZBlock
    \/ CallStage
    \/ CallNamedClass

\* constructions of backbones
Spec == Init /\ [][Next]_vars

\* direct calls of the builders and of the named classes
SpecCalls == Init /\ [][NextCalls]_vars

(***************************************************************************)
(* Properties.                                                             *)
(***************************************************************************)
IsXYCall == last.op \in {"apply_x_block", "apply_y_block"}

\* C1: apply_x_block and apply_y_block raise ValueError from the filters
\* check when filters_in # filters_out and stride = 1, and the filters check
\* never rejects a call with stride # 1, equal filters or not.
C1_XYPrecondition ==
    IsXYCall =>
        /\ (last.args.filters_in # last.args.filters_out
              /\ last.args.stride = 1)
             => (last.r.err = "ValueError" /\ last.r.site = "filters_check")
        /\ last.args.stride # 1 => last.r.site # "filters_check"

C1_Witness ==
    /\ last.op = "apply_x_block"
    /\ last.args.filters_in # last.args.filters_out
    /\ last.args.stride = 2
    /\ last.r.err = "None"

\* C2: apply_stage with a block_type outside X, Y, Z raises
\* NotImplementedError and builds no block; with X, Y or Z it never raises
\* NotImplementedError.
C2_StageBlockType ==
    last.op = "apply_stage" =>
        IF last.args.block_type \in BlockTypes
        THEN last.r.err # "NotImplementedError"
        ELSE /\ last.r.err = "NotImplementedError"
             /\ last.r.calls = <<>>
             /\ last.r.units = <<>>

C2_Witness ==
    /\ last.op = "apply_stage"
    /\ last.args.block_type = "W"
    /\ last.r.err = "NotImplementedError"

\* hyperparameters as the preset tables give them
IsPreset(a) ==
    /\ \A i \in 1..NUM_STAGES : a.depths[i] > 0
    /\ \A i \in 1..NUM_STAGES : a.widths[i] % a.group_width = 0
    /\ a.block_type \in {"X", "Y"}

\* C3: construction with 4 positive depths, 4 widths divisible by
\* group_width and block type X or Y succeeds, and the output tensor has
\* widths[3] channels (the last of the four widths).
C3_PresetBuilds ==
    (pc # "idle" /\ IsPreset(args)) =>
        /\ pc = "built"
        /\ model.output.c = args.widths[NUM_STAGES]

C3_Witness ==
    /\ pc = "built"
    /\ IsPreset(args)
    /\ args.widths = <<4, 10, 10, 4>>
    /\ model.output.c = 4

RECURSIVE BlocksBefore(_, _)
\* number of blocks of the stages 0 .. stage_index - 1
BlocksBefore(a, stage_index) ==
    IF stage_index = 0 THEN 0
    ELSE BlocksBefore(a, stage_index - 1)
           + (IF a.depths[stage_index] > 1 THEN a.depths[stage_index] ELSE 1)

FirstCalls(a) == { BlocksBefore(a, k) + 1 : k \in 0..(NUM_STAGES - 1) }

StridedConvs(units) ==
    { i \in DOMAIN units : units[i].kind = "Conv2D" /\ units[i].strides # 1 }

StemIndex(a) == IF a.include_rescaling THEN 3 ELSE 2

\* C4: a built backbone's output is the input size divided by 32 (rounded
\* up when the size is not a multiple of 32; 224 gives 7), whatever the
\* depths: the stem is one stride-2 convolution, the first block of each of
\* the 4 stages has stride 2 and every other block has stride 1.
C4_Downsampling ==
    pc = "built" =>
        LET size == args.input_shape[1] IN
        /\ model.output.h = CeilDiv(size, 32)
        /\ size % 32 = 0 => model.output.h * 32 = size
        /\ model.layers[StemIndex(args)].kind = "Conv2D"
        /\ model.layers[StemIndex(args)].strides = 2
        /\ Len(calls) = BlocksBefore(args, NUM_STAGES)
        /\ \A i \in DOMAIN calls :
             calls[i].stride = IF i \in FirstCalls(args) THEN 2 ELSE 1
        /\ \A i \in StridedConvs(model.layers) : model.layers[i].strides = 2
        /\ Cardinality(StridedConvs(model.layers))
             = 1 + NUM_STAGES * (IF args.block_type = "Z" THEN 1 ELSE 2)

C4_Witness ==
    /\ pc = "built"
    /\ args.input_shape[1] = 224
    /\ model.output.h = 7
    /\ args.depths = <<1, 2, 1, 2>>

\* C5: get_config returns a configuration object that holds depths, widths,
\* group_width, block_type, include_rescaling, model_name, input_tensor and
\* input_shape.
C5_GetConfigReturnsConfig ==
    last.op = "get_config" =>
        /\ last.r.type = "dict"
        /\ ConfigKeys \subseteq last.r.keys

Names(units) == [i \in DOMAIN units |-> units[i].name]

\* C6: two constructions with the same input shape and hyperparameters give
\* graphs with the same number of layers, the same layer names and the same
\* output shape.
C6_Deterministic ==
    (pc = "built" /\ prev # NoModel /\ prev.args = model.args) =>
        /\ Len(prev.layers) = Len(model.layers)
        /\ Names(prev.layers) = Names(model.layers)
        /\ prev.output = model.output

\* a unit without the name it drew from the registry
Anonymous(u) == IF u.auto THEN [u EXCEPT !.name = ""] ELSE u
Topology(units) == [i \in DOMAIN units |-> Anonymous(units[i])]
Without(units, k) ==
    [i \in 1..(Len(units) - 1) |-> IF i < k THEN units[i] ELSE units[i + 1]]

\* C7: for the same hyperparameters the graph with include_rescaling on is
\* the graph with it off plus exactly one Rescaling(1/255) unit between the
\* input and the stem; every other unit, in order, is the same (the names
\* that unnamed units draw from the registry apart).
C7_RescalingOnly ==
    (pc = "built" /\ prev # NoModel /\ prev.args = Toggled(model.args)) =>
        LET on == IF model.args.include_rescaling THEN model ELSE prev
            off == IF model.args.include_rescaling THEN prev ELSE model
        IN  /\ Len(on.layers) = Len(off.layers) + 1
            /\ on.layers[1].kind = "InputLayer"
            /\ on.layers[2].kind = "Rescaling"
            /\ on.layers[2].arg = "1/255"
            /\ on.layers[3].name = on.args.model_name \o "_stem_conv"
            /\ Topology(Without(on.layers, 2)) = Topology(off.layers)
            /\ on.output = off.output

C7_Witness ==
    /\ pc = "built"
    /\ prev # NoModel
    /\ prev.args = Toggled(model.args)
    /\ model.args.include_rescaling
    /\ model.layers[2].kind = "Rescaling"

PassesFiltersCheck ==
    ~(last.args.filters_in # last.args.filters_out /\ last.args.stride = 1)

\* C8 as stated: whenever filters_out is not divisible by group_width, the
\* grouped 3x3 convolution of an X or Y block is rejected.
C8_IndivisibleRejected ==
    (IsXYCall /\ PassesFiltersCheck
       /\ last.args.filters_out % last.args.group_width # 0)
      => (last.r.err = "ValueError" /\ last.r.site = "Conv2D")

\* C8 amended: with groups = filters_out // group_width >= 1, the grouped
\* 3x3 convolution of an X or Y block is rejected exactly when filters_out
\* is not a multiple of groups; a filters_out divisible by group_width is
\* always accepted, and so is an indivisible one that groups divides.
C8_RejectedIffGroupsIndivisible ==
    (IsXYCall /\ PassesFiltersCheck
       /\ last.args.filters_out >= last.args.group_width) =>
        LET fo == last.args.filters_out
            groups == fo \div last.args.group_width
        IN  /\ (last.r.site = "Conv2D") <=> (fo % groups # 0)
            /\ (fo % groups = 0) => last.r.err = "None"
            /\ (fo % last.args.group_width = 0) => last.r.err = "None"

C8_Witness ==
    /\ last.op = "apply_y_block"
    /\ last.args.filters_out = 7
    /\ last.args.group_width = 4
    /\ last.args.stride = 2
    /\ last.r.err = "None"

\* C9 as stated: apply_z_block does not reject filters_in # filters_out
\* with stride = 1.
C9_ZNotRejected ==
    (last.op = "apply_z_block"
       /\ last.args.filters_in # last.args.filters_out
       /\ last.args.stride = 1)
      => last.r.site # "filters_check"

\* C9 amended: apply_z_block makes the same check as the X and Y blocks: a
\* call with filters_in # filters_out and stride = 1 raises ValueError
\* before the bottleneck arithmetic and builds nothing; the check rejects
\* no call with stride # 1.
C9_ZPrecondition ==
    last.op = "apply_z_block" =>
        /\ (last.args.filters_in # last.args.filters_out
              /\ last.args.stride = 1)
             => (/\ last.r.err = "ValueError"
                 /\ last.r.site = "filters_check"
                 /\ last.r.units = <<>>)
        /\ last.args.stride # 1 => last.r.site # "filters_check"

C9_Witness ==
    /\ last.op = "apply_z_block"
    /\ last.args.filters_in = 4
    /\ last.args.filters_out = 7
    /\ last.args.stride = 1
    /\ last.r.site = "filters_check"

Flops == {"002", "004", "006", "008", "016", "032", "040", "064", "080",
          "120", "160", "320"}
Lower(b) == IF b = "X" THEN "x" ELSE "y"

\* C10: each class RegNet<B><NNN>Backbone passes on the preset name
\* regnet<b><nnn> of its own name, with include_rescaling, input_tensor and
\* input_shape as it received them; the 24 classes exist and no other class
\* passes on the same preset name.
C10_OwnPreset ==
    last.op = "__new__" =>
        /\ NamedClasses
             = { "RegNet" \o b \o n \o "Backbone" : b \in {"X", "Y"},
                                                    n \in Flops }
        /\ \E b \in {"X", "Y"}, n \in Flops :
             /\ last.args.cls = "RegNet" \o b \o n \o "Backbone"
             /\ last.r.preset = "regnet" \o Lower(b) \o n
        /\ \A other \in NamedClasses \ {last.args.cls} :
             PresetName[other] # last.r.preset
        /\ last.r.kwargs.include_rescaling = last.args.include_rescaling
        /\ last.r.kwargs.input_tensor = last.args.input_tensor
        /\ last.r.kwargs.input_shape = last.args.input_shape

C10_Witness ==
    /\ last.op = "__new__"
    /\ last.args.cls = "RegNetY320Backbone"
    /\ last.r.preset = "regnety320"
    /\ last.args.include_rescaling

\* a block call without its name
Shape(call) ==
    [block_type |-> call.block_type, filters_in |-> call.filters_in,
     filters_out |-> call.filters_out, group_width |-> call.group_width,
     stride |-> call.stride]

Shapes(cs) == [i \in DOMAIN cs |-> Shape(cs[i])]

\* n block calls of a stage: the first with stride 2 from filters_in to
\* filters_out, the others with stride 1 from filters_out to filters_out
StageShapes(n, block_type, filters_in, filters_out, group_width) ==
    [i \in 1..n |->
        [block_type |-> block_type,
         filters_in |-> IF i = 1 THEN filters_in ELSE filters_out,
         filters_out |-> filters_out, group_width |-> group_width,
         stride |-> IF i = 1 THEN 2 ELSE 1]]

\* the blocks that were built: each has one 3x3 convolution
BlocksBuilt(units) ==
    Cardinality({ i \in DOMAIN units :
                    units[i].kind = "Conv2D" /\ units[i].kernel = 3 })

IsStageCall ==
    last.op = "apply_stage" /\ last.args.block_type \in BlockTypes

RECURSIVE StageOfCall(_, _, _)
\* the stage (0 based) that makes the i-th block call of a construction
StageOfCall(a, i, k) ==
    IF k = NUM_STAGES - 1 \/ i <= BlocksBefore(a, k + 1) THEN k
    ELSE StageOfCall(a, i, k + 1)

\* C12: in a backbone construction every block's filters_in is the
\* filters_out of the block called just before it: the first block of
\* stage 0 gets the stem's 32 channels, the first block of stage i > 0 gets
\* widths[i-1], and every later block of stage i gets widths[i].
C12_ChannelsThreaded ==
    \A i \in DOMAIN calls :
        LET k == StageOfCall(args, i, 0) IN
        /\ calls[i].filters_in
             = IF i = 1 THEN STEM_FILTERS ELSE calls[i - 1].filters_out
        /\ calls[i].filters_in
             = IF i \in FirstCalls(args)
               THEN (IF k = 0 THEN 32 ELSE args.widths[k])
               ELSE args.widths[k + 1]
        /\ calls[i].filters_out = args.widths[k + 1]

C12_Witness ==
    /\ pc = "built"
    /\ args.widths = <<4, 10, 4, 10>>
    /\ args.depths = <<MaxDepth, 1, MaxDepth, 1>>
    /\ Len(calls) = 2 * MaxDepth + 2
    /\ calls[MaxDepth + 1].filters_in = 4
    /\ calls[MaxDepth + 1].filters_out = 10

\* the name a block took: the one given, or the one drawn from the registry
TakenName(prefix) ==
    IF last.args.name = None THEN ToString(reg[prefix]) ELSE last.args.name

\* what apply_x_block builds from the inputs of the last call, under the
\* name that call took
SameCallOfX ==
    apply_x_block(Tensor(last.args.size, last.args.filters_in),
                  last.args.filters_in, last.args.filters_out,
                  last.args.group_width, last.args.stride,
                  TakenName("yblock"), reg)

Gates(units) ==
    { i \in DOMAIN units : units[i].kind = "SqueezeAndExcite2D" }

\* C13: for the same inputs apply_y_block builds the units of
\* apply_x_block plus exactly one squeeze-and-excitation gate (filters_out
\* channels, ratio 0.25) between the 3x3 grouped convolution and the final
\* 1x1 projection; the skip path (none for stride 1, else a strided 1x1
\* convolution without activation), the groups and the final
\* ReLU(main + skip) are the same, and so is the outcome of the call.
C13_YIsXPlusGate ==
    last.op = "apply_y_block" =>
        LET xr == SameCallOfX
            y == last.r.units
            name == TakenName("yblock")
        IN  /\ last.r.err = xr.err
            /\ last.r.site = xr.site
            /\ last.r.x = xr.x
            /\ Gates(xr.units) = {}
            /\ last.r.err = "None" =>
                 /\ Cardinality(Gates(y)) = 1
                 /\ LET g == CHOOSE i \in Gates(y) : TRUE IN
                    /\ Topology(Without(y, g)) = Topology(xr.units)
                    /\ y[g].filters = last.args.filters_out
                    /\ y[g].arg = "1/4"
                    /\ y[g - 1].name = name \o "_conv_3x3_relu"
                    /\ y[g - 3].groups
                         = last.args.filters_out \div last.args.group_width
                    /\ y[g + 1].name = name \o "_conv_1x1_2"
                 /\ y[Len(y)].name = name \o "_exit_relu"
                 /\ y[Len(y) - 1].kind = "TFOpLambda"
                 /\ IF last.args.stride = 1
                    THEN y[1].name = name \o "_conv_1x1_1"
                    ELSE /\ y[1].name = name \o "_skip_1x1"
                         /\ y[1].kernel = 1
                         /\ y[1].strides = last.args.stride
                         /\ y[2].kind = "BatchNormalization"
                         /\ y[3].name = name \o "_conv_1x1_1"

C13_Witness ==
    /\ last.op = "apply_y_block"
    /\ last.args.stride = 2
    /\ last.args.name = None
    /\ last.r.err = "None"
    /\ Cardinality(Gates(last.r.units)) = 1

Additions(units) == { i \in DOMAIN units : units[i].kind = "TFOpLambda" }

\* C14: a Z block that returns has, for stride # 1, no addition and no skip
\* convolution (its last unit belongs to the final 1x1 projection), and for
\* stride = 1 ends with the addition of the main path and the block input;
\* in both cases the output has filters_out channels, the first two
\* convolutions and the gate have filters_out / bottleneck_ratio channels
\* (4 x filters_out for the ratio 0.25), and the 3x3 convolution has
\* filters_out // group_width groups.
C14_ZBlockShape ==
    (last.op = "apply_z_block" /\ last.r.err = "None") =>
        LET z == last.r.units
            name == TakenName("zblock")
            fo == last.args.filters_out
            ratio == last.args.bottleneck_ratio
            width == (fo * ratio[2]) \div ratio[1]
        IN  /\ last.r.x.c = fo
            /\ ratio = <<1, 4>> => width = 4 * fo
            /\ z[1].name = name \o "_conv_1x1_1"
            /\ z[1].filters = width
            /\ z[4].name = name \o "_conv_3x3"
            /\ z[4].filters = width
            /\ z[4].groups = fo \div last.args.group_width
            /\ z[4].strides = last.args.stride
            /\ z[7].kind = "SqueezeAndExcite2D"
            /\ z[7].filters = width
            /\ z[8].name = name \o "_conv_1x1_2"
            /\ z[8].filters = fo
            /\ z[9].name = name \o "_conv_1x1_2_bn"
            /\ \A i \in DOMAIN z : z[i].name # name \o "_skip_1x1"
            /\ IF last.args.stride # 1
               THEN Additions(z) = {} /\ Len(z) = 9
               ELSE /\ Additions(z) = {10}
                    /\ Len(z) = 10
                    /\ last.args.filters_in = fo
                    /\ last.r.x = Tensor(last.args.size, fo)

C14_Witness ==
    /\ last.op = "apply_z_block"
    /\ last.r.err = "None"
    /\ last.args.stride = 2
    /\ last.args.filters_in = 4
    /\ last.args.filters_out = 7
    /\ last.args.bottleneck_ratio = <<1, 4>>
    /\ last.r.units[1].filters = 28
    /\ Len(last.r.units) = 9

\* C15: the name prefixes that calls made without a name drew from the
\* registry are pairwise distinct, and no two of those calls gave a layer
\* the same name.
C15_DrawnNamesDistinct ==
    \A i, j \in DOMAIN drawn :
        i # j =>
            /\ drawn[i].prefix # drawn[j].prefix
            /\ drawn[i].layer # None => drawn[i].layer # drawn[j].layer

NamedLayers(layers) == { i \in DOMAIN layers : ~layers[i].auto }

\* C16: in a backbone that was built, no two of the layers that were given
\* a name (all but the input, rescaling and addition layers) have the same
\* name.
C16_LayerNamesDistinct ==
    pc = "built" =>
        LET named == NamedLayers(model.layers) IN
        Cardinality({ model.layers[i].name : i \in named })
            = Cardinality(named)

C16_Witness ==
    /\ pc = "built"
    /\ args.block_type = "Y"
    /\ \A k \in 1..NUM_STAGES : args.depths[k] = MaxDepth
    /\ \E i, j \in NamedLayers(model.layers) :
        /\ model.layers[i].name = "regnet_Stage_2_YBlock_0_conv_3x3"
        /\ model.layers[j].name = "regnet_Stage_2_YBlock_1_conv_3x3"

\* C17: a construction with block type X, Y or Z is never ended by the
\* filters check of a block: every block it calls with stride 1 gets equal
\* filters_in and filters_out, and every block it calls with different
\* filters_in and filters_out gets stride 2.
C17_NoFiltersRejection ==
    (pc # "idle" /\ args.block_type \in BlockTypes) =>
        /\ err.site # "filters_check"
        /\ \A i \in DOMAIN calls :
            /\ calls[i].stride = 1
                 => calls[i].filters_in = calls[i].filters_out
            /\ calls[i].filters_in # calls[i].filters_out
                 => calls[i].stride = STAGE_STRIDE

C17_Witness ==
    /\ pc = "built"
    /\ args.block_type = "Z"
    /\ Len(calls) > NUM_STAGES
    /\ \E i, j \in DOMAIN calls :
        /\ calls[i].filters_in # calls[i].filters_out
        /\ calls[i].stride = STAGE_STRIDE
        /\ calls[j].stride = 1
====
